---- MODULE Spec2Model ----
(***************************************************************************)
(* Model of the HTTP inference client (src/clients/http/client.py):        *)
(* the session state of InferenceHTTPClient, its configuration methods,    *)
(* its registry (administrative) calls, predict with the legacy and the    *)
(* new request builders, the wrap_errors translation boundary and the      *)
(* predict_on_stream generator; and of the model artefact cache            *)
(* (src/inference/core/cache/model_artefacts.py).                          *)
(*                                                                         *)
(* A model identifier is a sequence of characters, so that str.split("/")  *)
(* is computed and not assumed.  Python's None is the one-element          *)
(* sequence None (no identifier holds that character).                     *)
(***************************************************************************)
EXTENDS Naturals, Sequences, FiniteSets, TLC

VARIABLES
    inference_configuration, \* self.__inference_configuration
    client_mode,             \* self.__client_mode
    model_type,              \* self.__model_type
    selected_model,          \* self.__selected_model
    last,                    \* the call the caller is looking at: arguments, traffic, outcome
    preceding,               \* what the call returned before `last` selected, if it was a
                             \* successful load_model(..., set_as_default=True)
    stream,                  \* the generator predict_on_stream returned, and its consumer
    cache_files              \* the files under MODEL_CACHE_DIR (model_artefacts.py)

session == <<inference_configuration, client_mode, model_type, selected_model>>
vars ==
    <<inference_configuration, client_mode, model_type, selected_model, last, preceding,
      stream, cache_files>>

---------------------------------------------------------------------------
(* Bounds of the model *)

\* longest model identifier, in characters
MaxIdLen == 3
\* most images handed to one predict call
MaxInputs == 2
MaxFrames == 2

---------------------------------------------------------------------------
(* Values *)

SUCCESSFUL_STATUS_CODE == 200

Chars == {"a", "/"}

None == <<"None">>
Absent == <<"Absent">>
NoType == "None"

\* every str of at most MaxIdLen characters
Ids == UNION {[1..n -> Chars] : n \in 0..MaxIdLen}

\* one well-formed identifier, "a/a", one without a slash, "a", and the empty str
SampleIds == {<<"a", "/", "a">>, <<"a">>, <<>>}

\* HTTPClientMode.LEGACY and HTTPClientMode.NEW (NEW is a reserved word of TLA+)
LEGACY_MODE == "LEGACY"
NEW_MODE == "NEW"
HTTPClientMode == {LEGACY_MODE, NEW_MODE}

OBJECT_DETECTION == "object_detection"
CLASSIFICATION == "classification"
INSTANCE_SEGMENTATION == "instance_segmentation"
ModelType == {OBJECT_DETECTION, CLASSIFICATION, INSTANCE_SEGMENTATION}

\* InferenceConfiguration.init_default() and one configuration a caller passes to configure
InitDefault == "init_default"
InferenceConfiguration == {InitDefault, "custom"}

ImagesReference == {"img1", "img2"}

\* every list of at most MaxInputs image references
InferenceInputs == UNION {[1..n -> ImagesReference] : n \in 0..MaxInputs}

DEFAULT_HEADERS == "application/json"

NEW_INFERENCE_ENDPOINTS ==
    [t \in ModelType |->
        CASE t = INSTANCE_SEGMENTATION -> <<"/", "infer", "/", "instance_segmentation">>
          [] t = OBJECT_DETECTION -> <<"/", "infer", "/", "object_detection">>
          [] t = CLASSIFICATION -> <<"/", "infer", "/", "classification">>]

\* x or y, on Optional[str]: None and "" are falsy
OrId(x, y) == IF x = None \/ x = <<>> THEN y ELSE x

\* x or y, on Optional[ModelType]
OrType(x, y) == IF x = NoType THEN y ELSE x

RECURSIVE split(_)
\* str.split("/")
split(s) ==
    IF s = <<>> THEN << <<>> >>
    ELSE LET rest == split(Tail(s)) IN
         IF Head(s) = "/" THEN << <<>> >> \o rest
         ELSE << <<Head(s)>> \o Head(rest) >> \o Tail(rest)

---------------------------------------------------------------------------
(* The wire: requests, the server's replies, the requests library *)

Encode(reference) == <<"base64", reference>>
NoImage == <<"base64", "none">>

\* load_static_inference_input: one encoded payload per reference, in order
load_static_inference_input(inference_input) ==
    [i \in 1..Len(inference_input) |-> Encode(inference_input[i])]

\* InferenceConfiguration.to_legacy_call_parameters()
to_legacy_call_parameters(configuration) ==
    [style |-> "legacy", configuration |-> configuration, model_type |-> NoType]

\* InferenceConfiguration.to_api_call_parameters(client_mode, model_type)
to_api_call_parameters(configuration, mode, type) ==
    [style |-> mode, configuration |-> configuration, model_type |-> type]

NoParams == [style |-> "none", configuration |-> "none", model_type |-> NoType]

Request(method, path, model_id, image, params) ==
    [method |-> method, path |-> path, model_id |-> model_id, image |-> image,
     params |-> params]

\* what a server, or the network in front of it, can do with one request
ReplyKinds ==
    {"ok", "ok_viz", "ok_viz_null", "ok_jpeg", "ok_empty", "ok_not_json",
     "err_json", "err_text", "err_no_header", "refused"}

\* the replies that differ for a registry call: no visualisation, no image
AdminReplyKinds ==
    {"ok", "ok_empty", "ok_not_json", "err_json", "err_text", "err_no_header", "refused"}

NoHeader == "None"

\* the document a healthy server answers a request with
ExpectedShape(request) ==
    IF request.path = <<"/", "info">> THEN "server_info"
    ELSE IF Len(request.path) >= 2 /\ request.path[2] = "model" THEN "registry"
    ELSE "prediction"

Body(fmt, shape, request) == [fmt |-> fmt, shape |-> shape, about |-> request.image]

Response(status, content_type, body) ==
    [transport |-> "ok", status_code |-> status, content_type |-> content_type,
     body |-> body]

NoResponse ==
    [transport |-> "none", status_code |-> 0, content_type |-> NoHeader,
     body |-> [fmt |-> "none", shape |-> "none", about |-> NoImage]]

\* requests.get / requests.post: the reply of kind `kind` to `request`
Reply(kind, request) ==
    CASE kind = "ok" ->
           Response(SUCCESSFUL_STATUS_CODE, "application/json",
                    Body("json", ExpectedShape(request), request))
      [] kind = "ok_viz" ->
           Response(SUCCESSFUL_STATUS_CODE, "application/json",
                    Body("json", "prediction_viz", request))
      [] kind = "ok_viz_null" ->
           Response(SUCCESSFUL_STATUS_CODE, "application/json",
                    Body("json", "prediction_viz_null", request))
      [] kind = "ok_jpeg" ->
           Response(SUCCESSFUL_STATUS_CODE, "image/jpeg", Body("jpeg", "image", request))
      [] kind = "ok_empty" ->
           Response(SUCCESSFUL_STATUS_CODE, "application/json",
                    Body("json", "empty", request))
      [] kind = "ok_not_json" ->
           Response(SUCCESSFUL_STATUS_CODE, "text/html", Body("text", "html", request))
      [] kind = "err_json" ->
           Response(500, "application/json", Body("json", "message", request))
      [] kind = "err_text" ->
           Response(404, "text/html", Body("text", "html", request))
      [] kind = "err_no_header" ->
           Response(500, NoHeader, Body("text", "html", request))
      [] kind = "refused" ->
           [NoResponse EXCEPT !.transport = "refused"]

\* Response.raise_for_status(): HTTPError for a 4xx or 5xx status
raise_for_status(response) ==
    response.status_code >= 400 /\ response.status_code < 600

\* Response.text
Text(response) == <<"text", response.body.fmt, response.body.shape>>

\* whether Response.json() parses the body
IsJson(response) == response.body.fmt = "json"

\* Response.json().get("message")
JsonMessage(response) ==
    IF response.body.shape = "message" THEN <<"boom">> ELSE None

\* Response.json() of an inference response, as a document
Document(response) ==
    [about |-> response.body.about,
     entries |-> response.body.shape,
     visualization |->
        CASE response.body.shape = "prediction_viz" -> <<"base64", "jpeg">>
          [] response.body.shape = "prediction_viz_null" -> None
          [] OTHER -> Absent]

\* response_contains_jpeg_image
response_contains_jpeg_image(response) == response.content_type = "image/jpeg"

\* transform_visualisation_bytes(visualisation=response.content, expected_format=...)
transform_visualisation_bytes(response, configuration) ==
    <<"decoded", configuration, "bytes">>

\* transform_base64_visualisation(visualisation=..., expected_format=...)
transform_base64_visualisation(visualisation, configuration) ==
    <<"decoded", configuration>> \o visualisation

\* ServerInfo.from_dict / RegisteredModels.from_dict: the payload must describe the entity
FromDictFails(entity, response) == response.body.shape # entity

---------------------------------------------------------------------------
(* The client: session, methods, the error translation *)

Self ==
    [inference_configuration |-> inference_configuration,
     client_mode |-> client_mode,
     model_type |-> model_type,
     selected_model |-> selected_model]

\* InferenceHTTPClient.__init__(api_url, api_key, client_mode)
Construct(mode) ==
    [inference_configuration |-> InitDefault,
     client_mode |-> mode,
     model_type |-> OBJECT_DETECTION,
     selected_model |-> None]

NoValue == [shape |-> "none", items |-> <<>>]

\* a call in progress: the client, the traffic so far, the results so far, the order in
\* which requests were sent, responses received and results appended, the exception raised
Started(self) ==
    [self |-> self, requests |-> <<>>, responses |-> <<>>, results |-> <<>>,
     events |-> <<>>,
     raised |-> "none", status_code |-> 0, api_message |-> None, value |-> NoValue]

Raise(call, exception) == [call EXCEPT !.raised = exception]

\* the entity ServerInfo.from_dict / RegisteredModels.from_dict returns
Entity(entity, response) ==
    [shape |-> "entity",
     items |-> <<[about |-> response.body.about, entries |-> entity,
                  visualization |-> Absent]>>]

\* the configuration methods return self
Chained(self) == [Started(self) EXCEPT !.value = [shape |-> "self", items |-> <<>>]]

configure(self, configuration) ==
    Chained([self EXCEPT !.inference_configuration = configuration])

use_legacy_client(self) == Chained([self EXCEPT !.client_mode = LEGACY_MODE])

use_new_client(self) == Chained([self EXCEPT !.client_mode = NEW_MODE])

use_model(self, model_id, type) ==
    Chained([self EXCEPT !.selected_model = model_id, !.model_type = type])

\* one request, its reply, response.raise_for_status() and response.json()
RoundTrip(call, request, kind) ==
    LET response == Reply(kind, request)
        sent == [call EXCEPT !.requests = Append(@, request),
                             !.events = Append(@, <<"request", 1>>)]
        received == [sent EXCEPT !.responses = Append(@, response),
                                 !.events = Append(@, <<"response", 1>>)]
    IN  IF response.transport # "ok" THEN Raise(sent, "requests.ConnectionError")
        ELSE IF raise_for_status(response) THEN Raise(received, "requests.HTTPError")
        ELSE IF ~IsJson(response) THEN Raise(received, "JSONDecodeError")
        ELSE received

\* return <Entity>.from_dict(response_payload), the last statement of a registry method
from_dict(call, entity) ==
    LET response == call.responses[Len(call.responses)]
    IN  IF FromDictFails(entity, response) THEN Raise(call, "KeyError")
        ELSE [call EXCEPT !.value = Entity(entity, response)]

get_server_info(self, kind) ==
    LET call == RoundTrip(Started(self),
                          Request("GET", <<"/", "info">>, Absent, NoImage, NoParams), kind)
    IN  IF call.raised # "none" THEN call ELSE from_dict(call, "server_info")

list_loaded_models(self, kind) ==
    LET call == RoundTrip(Started(self),
                          Request("GET", <<"/", "model", "/", "registry">>, Absent,
                                  NoImage, NoParams), kind)
    IN  IF call.raised # "none" THEN call ELSE from_dict(call, "registry")

\* load_model as it would be if it recorded the identifier and forgot the category
load_model_forgets_category(self, model_id, type, set_as_default, kind) ==
    LET call == RoundTrip(Started(self),
                          Request("POST", <<"/", "model", "/", "add">>, model_id,
                                  NoImage, NoParams), kind)
    IN  IF call.raised # "none" THEN call
        ELSE IF set_as_default
             THEN from_dict([call EXCEPT !.self.selected_model = model_id], "registry")
             ELSE from_dict(call, "registry")

load_model(self, model_id, type, set_as_default, kind) ==
    LET call == RoundTrip(Started(self),
                          Request("POST", <<"/", "model", "/", "add">>, model_id,
                                  NoImage, NoParams), kind)
    IN  IF call.raised # "none" THEN call
        ELSE IF set_as_default
             THEN from_dict([call EXCEPT !.self.selected_model = model_id,
                                         !.self.model_type = type], "registry")
             ELSE from_dict(call, "registry")

\* unload_model as it would be without the comparison with the selected model
unload_model_always_clears(self, model_id, kind) ==
    LET call == RoundTrip(Started(self),
                          Request("POST", <<"/", "model", "/", "remove">>, model_id,
                                  NoImage, NoParams), kind)
    IN  IF call.raised # "none" THEN call
        ELSE from_dict([call EXCEPT !.self.selected_model = None,
                                    !.self.model_type = OBJECT_DETECTION], "registry")

unload_model(self, model_id, kind) ==
    LET call == RoundTrip(Started(self),
                          Request("POST", <<"/", "model", "/", "remove">>, model_id,
                                  NoImage, NoParams), kind)
    IN  IF call.raised # "none" THEN call
        ELSE IF model_id = self.selected_model
             THEN from_dict([call EXCEPT !.self.selected_model = None,
                                         !.self.model_type = OBJECT_DETECTION], "registry")
             ELSE from_dict(call, "registry")

\* unload_all_models as it would be if it cleared the identifier and kept the category
unload_all_models_keeps_category(self, kind) ==
    LET call == RoundTrip(Started(self),
                          Request("POST", <<"/", "model", "/", "clear">>, Absent,
                                  NoImage, NoParams), kind)
    IN  IF call.raised # "none" THEN call
        ELSE from_dict([call EXCEPT !.self.selected_model = None], "registry")

unload_all_models(self, kind) ==
    LET call == RoundTrip(Started(self),
                          Request("POST", <<"/", "model", "/", "clear">>, Absent,
                                  NoImage, NoParams), kind)
    IN  IF call.raised # "none" THEN call
        ELSE from_dict([call EXCEPT !.self.selected_model = None,
                                    !.self.model_type = OBJECT_DETECTION], "registry")

\* unwrap_single_element_list as it would be if it never unwrapped
unwrap_never(sequence) == [shape |-> "list", items |-> sequence]

unwrap_single_element_list(sequence) ==
    IF Len(sequence) = 1
    THEN [shape |-> "bare", items |-> <<sequence[1]>>]
    ELSE [shape |-> "list", items |-> sequence]

RECURSIVE legacy_loop(_, _, _, _)
\* the for loop of infer_from_legacy_api, from the element after those already sent
legacy_loop(call, model_id_chunks, encoded_inference_inputs, script) ==
    LET i == Len(call.requests) + 1 IN
    IF i > Len(encoded_inference_inputs)
    THEN [call EXCEPT !.value = unwrap_single_element_list(call.results)]
    ELSE
      LET request == Request("POST",
                             <<"/">> \o model_id_chunks[1] \o <<"/">> \o model_id_chunks[2],
                             Absent, encoded_inference_inputs[i],
                             to_legacy_call_parameters(call.self.inference_configuration))
          response == Reply(script[i], request)
          sent == [call EXCEPT !.requests = Append(@, request),
                               !.events = Append(@, <<"request", i>>)]
          received == [sent EXCEPT !.responses = Append(@, response),
                                   !.events = Append(@, <<"response", i>>)]
      IN  IF response.transport # "ok" THEN Raise(sent, "requests.ConnectionError")
          ELSE IF raise_for_status(response) THEN Raise(received, "requests.HTTPError")
          ELSE IF response_contains_jpeg_image(response)
          THEN legacy_loop(
                 [received EXCEPT !.results = Append(@,
                    [about |-> response.body.about, entries |-> "visualization",
                     visualization |-> transform_visualisation_bytes(
                        response, call.self.inference_configuration)]),
                                  !.events = Append(@, <<"result", i>>)],
                 model_id_chunks, encoded_inference_inputs, script)
          ELSE IF ~IsJson(response) THEN Raise(received, "JSONDecodeError")
          ELSE legacy_loop([received EXCEPT !.results = Append(@, Document(response)),
                                            !.events = Append(@, <<"result", i>>)],
                           model_id_chunks, encoded_inference_inputs, script)

\* infer_from_legacy_api walking its inputs from the last to the first
infer_from_legacy_api_backwards(self, inference_input, model_id, script) ==
    LET loaded == load_static_inference_input(inference_input)
        encoded_inference_inputs ==
            [i \in 1..Len(loaded) |-> loaded[Len(loaded) + 1 - i]]
        model_id_to_be_used == OrId(model_id, self.selected_model)
    IN  IF model_id_to_be_used = None
        THEN Raise(Started(self), "AttributeError")
        ELSE LET model_id_chunks == split(model_id_to_be_used) IN
             IF Len(model_id_chunks) # 2
             THEN Raise(Started(self), "InvalidModelIdentifier")
             ELSE legacy_loop(Started(self), model_id_chunks, encoded_inference_inputs,
                              script)

infer_from_legacy_api(self, inference_input, model_id, script) ==
    LET encoded_inference_inputs == load_static_inference_input(inference_input)
        model_id_to_be_used == OrId(model_id, self.selected_model)
    IN  IF model_id_to_be_used = None
        THEN Raise(Started(self), "AttributeError")
        ELSE LET model_id_chunks == split(model_id_to_be_used) IN
             IF Len(model_id_chunks) # 2
             THEN Raise(Started(self), "InvalidModelIdentifier")
             ELSE legacy_loop(Started(self), model_id_chunks, encoded_inference_inputs,
                              script)

\* the body of the new loop without its visualization step
decode_visualization_never(parsed_response, configuration) == parsed_response

\* the body of the new loop after response.json(): a visualization that is not None is
\* replaced by its decoded form
decode_visualization(parsed_response, configuration) ==
    IF parsed_response.visualization \notin {Absent, None}
    THEN [parsed_response EXCEPT !.visualization =
            transform_base64_visualisation(@, configuration)]
    ELSE parsed_response

RECURSIVE new_loop(_, _, _, _, _)
\* the for loop of infer_from_new_api, from the element after those already sent
new_loop(call, payload, endpoint, encoded_inference_inputs, script) ==
    LET i == Len(call.requests) + 1 IN
    IF i > Len(encoded_inference_inputs)
    THEN [call EXCEPT !.value = unwrap_single_element_list(call.results)]
    ELSE
      LET request == Request("POST", endpoint, payload.model_id,
                             encoded_inference_inputs[i], payload.params)
          response == Reply(script[i], request)
          sent == [call EXCEPT !.requests = Append(@, request),
                               !.events = Append(@, <<"request", i>>)]
          received == [sent EXCEPT !.responses = Append(@, response),
                                   !.events = Append(@, <<"response", i>>)]
      IN  IF response.transport # "ok" THEN Raise(sent, "requests.ConnectionError")
          ELSE IF raise_for_status(response) THEN Raise(received, "requests.HTTPError")
          ELSE IF ~IsJson(response) THEN Raise(received, "JSONDecodeError")
          ELSE new_loop(
                 [received EXCEPT !.results = Append(@,
                    decode_visualization(Document(response),
                                         call.self.inference_configuration)),
                                  !.events = Append(@, <<"result", i>>)],
                 payload, endpoint, encoded_inference_inputs, script)

\* infer_from_new_api without line 249: the endpoint of the session's category,
\* whatever the call's
infer_from_new_api_session_category(self, inference_input, type, model_id, script) ==
    LET encoded_inference_inputs == load_static_inference_input(inference_input)
        payload == [model_id |-> OrId(model_id, self.selected_model),
                    params |-> to_api_call_parameters(self.inference_configuration,
                                                      self.client_mode, self.model_type)]
    IN  new_loop(Started(self), payload, NEW_INFERENCE_ENDPOINTS[self.model_type],
                 encoded_inference_inputs, script)

infer_from_new_api(self, inference_input, type, model_id, script) ==
    LET encoded_inference_inputs == load_static_inference_input(inference_input)
        model_type_in_use == OrType(type, self.model_type)
        payload == [model_id |-> OrId(model_id, self.selected_model),
                    params |-> to_api_call_parameters(self.inference_configuration,
                                                      self.client_mode, model_type_in_use)]
    IN  IF model_type_in_use \notin DOMAIN NEW_INFERENCE_ENDPOINTS
        THEN Raise(Started(self), "KeyError")
        ELSE new_loop(Started(self), payload, NEW_INFERENCE_ENDPOINTS[model_type_in_use],
                      encoded_inference_inputs, script)

\* predict that keeps the overrides of the call as the new session defaults
predict_adopts_overrides(self, inference_input, type, model_id, script) ==
    LET adopted == [self EXCEPT !.selected_model = OrId(model_id, @),
                                !.model_type = OrType(type, @)]
    IN  IF self.client_mode = LEGACY_MODE
        THEN infer_from_legacy_api(adopted, inference_input, model_id, script)
        ELSE infer_from_new_api(adopted, inference_input, type, model_id, script)

\* predict without its dispatch on the client mode
predict_always_new(self, inference_input, type, model_id, script) ==
    infer_from_new_api(self, inference_input, type, model_id, script)

predict(self, inference_input, type, model_id, script) ==
    IF self.client_mode = LEGACY_MODE
    THEN infer_from_legacy_api(self, inference_input, model_id, script)
    ELSE infer_from_new_api(self, inference_input, type, model_id, script)

\* the exceptions `except ConnectionError` catches: the builtin and its subclasses.
\* The module imports only HTTPError from requests, so the name is the builtin's, and
\* requests.exceptions.ConnectionError (a RequestException, an OSError) is not one of them
ConnectionError ==
    {"ConnectionError", "ConnectionRefusedError", "ConnectionResetError",
     "ConnectionAbortedError", "BrokenPipeError"}

\* "application/json" in error.response.headers.get("Content-Type")
ContentTypeIsJson(content_type) == content_type = "application/json"

\* the decorator: what the caller gets from a call that ended as `call`
wrap_errors(call) ==
    IF call.raised = "requests.HTTPError"
    THEN LET response == call.responses[Len(call.responses)] IN
         IF response.content_type = NoHeader THEN Raise(call, "TypeError")
         ELSE IF ContentTypeIsJson(response.content_type)
              THEN IF ~IsJson(response) THEN Raise(call, "JSONDecodeError")
                   ELSE [call EXCEPT !.raised = "HTTPCallErrorError",
                                     !.status_code = response.status_code,
                                     !.api_message = JsonMessage(response)]
              ELSE [call EXCEPT !.raised = "HTTPCallErrorError",
                                !.status_code = response.status_code,
                                !.api_message = Text(response)]
    ELSE IF call.raised \in ConnectionError
    THEN Raise(call, "HTTPClientError")
    ELSE call

---------------------------------------------------------------------------
(* predict_on_stream: the generator object and its resumption *)

\* load_stream_inference_input: the frames a source delivers, consecutive frames differing
Sources ==
    {source \in UNION {[1..k -> ImagesReference] : k \in 0..MaxFrames} :
        \A i \in 1..(Len(source) - 1) : source[i] # source[i + 1]}

\* no generator: predict_on_stream has not been called
NoStream ==
    [state |-> "none", source |-> <<>>, cursor |-> 0, pulls |-> 0, yielded |-> 0,
     model_type |-> NoType, model_id |-> None, created_with |-> Construct(NEW_MODE)]

\* predict_on_stream that takes the first frame from the source before it is asked to
predict_on_stream_eager(self, source, type, model_id) ==
    [state |-> "created", source |-> source,
     cursor |-> IF source = <<>> THEN 0 ELSE 1, pulls |-> 0, yielded |-> 0,
     model_type |-> type, model_id |-> model_id, created_with |-> self]

\* calling the generator function: the arguments are bound and no line of the body runs.
\* cursor counts the frames taken from the source, pulls the next() calls of the
\* consumer, yielded the pairs handed over; created_with is the client as it is now
predict_on_stream(self, source, type, model_id) ==
    [state |-> "created", source |-> source, cursor |-> 0, pulls |-> 0, yielded |-> 0,
     model_type |-> type, model_id |-> model_id, created_with |-> self]

\* next() on the generator: the body runs to its next yield. It takes one frame, calls
\* self.predict on it, on the client as it is at this moment, and yields the pair; the
\* source at its end finishes the generator (StopIteration), and an exception of
\* predict propagates to the consumer and finishes it too
resume(strm, self, script) ==
    IF strm.cursor >= Len(strm.source)
    THEN [stream |-> [strm EXCEPT !.state = "exhausted", !.pulls = @ + 1],
          frame |-> <<>>,
          call |-> Raise(Started(self), "StopIteration")]
    ELSE LET frame == strm.source[strm.cursor + 1]
             prediction == wrap_errors(predict(self, <<frame>>, strm.model_type,
                                               strm.model_id, script))
         IN  [stream |-> [strm EXCEPT !.cursor = @ + 1, !.pulls = @ + 1,
                                      !.yielded = IF prediction.raised = "none"
                                                  THEN @ + 1 ELSE @,
                                      !.state = IF prediction.raised = "none"
                                                THEN "running" ELSE "raised"],
              frame |-> <<frame>>,
              call |-> prediction]

---------------------------------------------------------------------------
(* The model artefact cache: paths, the file system below them, the cache functions *)

\* inference.core.env.MODEL_CACHE_DIR, an absolute path; a path is the sequence of its
\* components, the first component of an absolute path being the root "/"
MODEL_CACHE_DIR == << <<"/">>, <<"cache">> >>

\* the names of the artefact files
Files == {<<"w">>, <<"c">>}

\* the identifiers the cache is used with: none, a dataset, a version of that dataset,
\* and another dataset
CacheIds == {None, <<"a">>, <<"a", "/", "a">>, <<"a", "a">>}

\* the components of a relative path: empty ones do not count
Components(path) == SelectSeq(split(path), LAMBDA component : component # <<>>)

\* os.path.join(directory, path): an absolute second argument discards the first
join(directory, path) ==
    IF path # <<>> /\ Head(path) = "/"
    THEN << <<"/">> >> \o Components(path)
    ELSE directory \o Components(path)

get_cache_dir(model_id) ==
    IF model_id # None THEN join(MODEL_CACHE_DIR, model_id) ELSE MODEL_CACHE_DIR

get_cache_file_path(file, model_id) == get_cache_dir(model_id) \o <<file>>

IsPrefix(directory, path) ==
    /\ Len(directory) <= Len(path)
    /\ SubSeq(path, 1, Len(directory)) = directory

Entry(kind, path) == [kind |-> kind, path |-> path]

\* os.path.isfile
isfile(files, path) == Entry("file", path) \in files

\* os.path.isdir
isdir(files, path) == Entry("dir", path) \in files

\* os.makedirs(path, exist_ok=True)
makedirs(files, path) ==
    files \cup {Entry("dir", SubSeq(path, 1, k)) : k \in 1..Len(path)}

is_file_cached(files, file, model_id) ==
    isfile(files, get_cache_file_path(file, model_id))

\* the outcome of a cache function: the file system after it and the exception raised
Done(files, exception) == [files |-> files, raised |-> exception]

initialise_cache(files, model_id) ==
    Done(makedirs(files, get_cache_dir(model_id)), "none")

\* save_bytes_in_cache, save_json_in_cache, save_text_lines_in_cache: dump_* refuses to
\* replace a file unless allow_override, creates the parent directory and writes
save_in_cache(files, file, model_id, allow_override) ==
    LET cached_file_path == get_cache_file_path(file, model_id) IN
    IF isfile(files, cached_file_path) /\ ~allow_override
    THEN Done(files, "RuntimeError")
    ELSE Done(makedirs(files, get_cache_dir(model_id))
                 \cup {Entry("file", cached_file_path)}, "none")

\* shutil.rmtree(path): the directory and everything below it
rmtree(files, path) ==
    IF ~isdir(files, path) THEN Done(files, "FileNotFoundError")
    ELSE Done({entry \in files : ~IsPrefix(path, entry.path)}, "none")

clear_cache(files, model_id) == rmtree(files, get_cache_dir(model_id))

---------------------------------------------------------------------------
(* The caller: one operation at a time, each observed until the caller moves on *)

NoCall ==
    [op |-> "none", model_id |-> None, model_type |-> NoType, set_as_default |-> FALSE,
     configuration |-> "none", inference_input |-> <<>>, file |-> <<>>,
     allow_override |-> FALSE, requests |-> <<>>,
     responses |-> <<>>, events |-> <<>>, raised |-> "none", status_code |-> 0,
     api_message |-> None, value |-> NoValue]

NoPreceding == [loaded |-> FALSE, model_id |-> None, model_type |-> NoType]

\* the operation ends as `call`: the client is as the method left it and the caller sees
\* the traffic and the outcome
Outcome(arguments, call) ==
    /\ inference_configuration' = call.self.inference_configuration
    /\ client_mode' = call.self.client_mode
    /\ model_type' = call.self.model_type
    /\ selected_model' = call.self.selected_model
    /\ last' = [arguments EXCEPT !.requests = call.requests,
                                 !.responses = call.responses,
                                 !.events = call.events,
                                 !.raised = call.raised,
                                 !.status_code = call.status_code,
                                 !.api_message = call.api_message,
                                 !.value = IF call.raised = "none" THEN call.value
                                           ELSE NoValue]

\* an operation of the client that is not a generator step
Finish(arguments, call) ==
    /\ Outcome(arguments, call)
    /\ UNCHANGED <<preceding, stream, cache_files>>

Init ==
    /\ \E mode \in HTTPClientMode :
         /\ inference_configuration = Construct(mode).inference_configuration
         /\ client_mode = Construct(mode).client_mode
         /\ model_type = Construct(mode).model_type
         /\ selected_model = Construct(mode).selected_model
    /\ last = NoCall
    /\ preceding = NoPreceding
    /\ stream = NoStream
    /\ cache_files = {}

Configure ==
    /\ last = NoCall
    /\ \E configuration \in InferenceConfiguration :
         Finish([NoCall EXCEPT !.op = "configure", !.configuration = configuration],
                configure(Self, configuration))

UseLegacyClient ==
    /\ last = NoCall
    /\ Finish([NoCall EXCEPT !.op = "use_legacy_client"], use_legacy_client(Self))

UseNewClient ==
    /\ last = NoCall
    /\ Finish([NoCall EXCEPT !.op = "use_new_client"], use_new_client(Self))

UseModel(ids) ==
    /\ last = NoCall
    /\ \E model_id \in ids, type \in ModelType :
         Finish([NoCall EXCEPT !.op = "use_model", !.model_id = model_id,
                               !.model_type = type],
                use_model(Self, model_id, type))

GetServerInfo(kinds) ==
    /\ last = NoCall
    /\ \E kind \in kinds :
         Finish([NoCall EXCEPT !.op = "get_server_info"],
                wrap_errors(get_server_info(Self, kind)))

ListLoadedModels(kinds) ==
    /\ last = NoCall
    /\ \E kind \in kinds :
         Finish([NoCall EXCEPT !.op = "list_loaded_models"],
                wrap_errors(list_loaded_models(Self, kind)))

LoadModel(ids, kinds) ==
    /\ last = NoCall
    /\ \E model_id \in ids, type \in ModelType, set_as_default \in BOOLEAN,
          kind \in kinds :
         Finish([NoCall EXCEPT !.op = "load_model", !.model_id = model_id,
                               !.model_type = type, !.set_as_default = set_as_default],
                wrap_errors(load_model(Self, model_id, type, set_as_default, kind)))

UnloadModel(ids, kinds) ==
    /\ last = NoCall
    /\ \E model_id \in ids, kind \in kinds :
         Finish([NoCall EXCEPT !.op = "unload_model", !.model_id = model_id],
                wrap_errors(unload_model(Self, model_id, kind)))

UnloadAllModels(kinds) ==
    /\ last = NoCall
    /\ \E kind \in kinds :
         Finish([NoCall EXCEPT !.op = "unload_all_models"],
                wrap_errors(unload_all_models(Self, kind)))

Predict(ids, types, inputs, kinds) ==
    /\ last = NoCall
    /\ \E model_id \in ids, type \in types, inference_input \in inputs :
         \E script \in [1..Len(inference_input) -> kinds] :
            Finish([NoCall EXCEPT !.op = "predict", !.model_id = model_id,
                                  !.model_type = type,
                                  !.inference_input = inference_input],
                   wrap_errors(predict(Self, inference_input, type, model_id, script)))

\* the caller asks for a stream over `source`
PredictOnStream(sources, types, ids) ==
    /\ last = NoCall
    /\ \E source \in sources, type \in types, model_id \in ids :
         /\ stream' = predict_on_stream(Self, source, type, model_id)
         /\ last' = [NoCall EXCEPT !.op = "predict_on_stream", !.model_id = model_id,
                                   !.model_type = type]
    /\ UNCHANGED <<session, preceding, cache_files>>

\* the consumer asks the stream for its next pair: the frame of the pair is recorded as
\* the input of the step, the prediction as its value
Pull(kinds) ==
    /\ last = NoCall
    /\ stream.state \in {"created", "running"}
    /\ \E script \in [1..1 -> kinds] :
         LET step == resume(stream, Self, script) IN
         /\ stream' = step.stream
         /\ Outcome([NoCall EXCEPT !.op = "next", !.model_id = stream.model_id,
                                   !.model_type = stream.model_type,
                                   !.inference_input = step.frame],
                    step.call)
    /\ UNCHANGED <<preceding, cache_files>>

\* a cache function ends as `done`
CacheOutcome(arguments, done) ==
    /\ cache_files' = done.files
    /\ last' = [arguments EXCEPT !.raised = done.raised]
    /\ UNCHANGED <<session, preceding, stream>>

InitialiseCache(ids) ==
    /\ last = NoCall
    /\ \E model_id \in ids :
         CacheOutcome([NoCall EXCEPT !.op = "initialise_cache", !.model_id = model_id],
                      initialise_cache(cache_files, model_id))

SaveInCache(ids) ==
    /\ last = NoCall
    /\ \E model_id \in ids, file \in Files, allow_override \in BOOLEAN :
         CacheOutcome([NoCall EXCEPT !.op = "save_in_cache", !.model_id = model_id,
                                     !.file = file, !.allow_override = allow_override],
                      save_in_cache(cache_files, file, model_id, allow_override))

ClearCache(ids) ==
    /\ last = NoCall
    /\ \E model_id \in ids :
         CacheOutcome([NoCall EXCEPT !.op = "clear_cache", !.model_id = model_id],
                      clear_cache(cache_files, model_id))

\* the caller has its result, or its exception, and moves on
Return ==
    /\ last # NoCall
    /\ last' = NoCall
    /\ preceding' =
         IF last.op = "load_model" /\ last.raised = "none" /\ last.set_as_default
         THEN [loaded |-> TRUE, model_id |-> last.model_id, model_type |-> last.model_type]
         ELSE NoPreceding
    /\ UNCHANGED <<session, stream, cache_files>>

---------------------------------------------------------------------------
(* Specifications *)

\* a predict call that names neither model nor category, on one image
OneImage == {<<reference>> : reference \in ImagesReference}

\* the session and its registry: every method, identifiers from SampleIds, every reply;
\* predict leaves identifier and category to the session
Next ==
    \/ Configure
    \/ UseLegacyClient
    \/ UseNewClient
    \/ UseModel(SampleIds)
    \/ GetServerInfo(AdminReplyKinds)
    \/ ListLoadedModels(AdminReplyKinds)
    \/ LoadModel(SampleIds, AdminReplyKinds)
    \/ UnloadModel(SampleIds, AdminReplyKinds)
    \/ UnloadAllModels(AdminReplyKinds)
    \/ Predict({None}, {NoType}, OneImage, ReplyKinds)
    \/ Return

Spec == Init /\ [][Next]_vars

\* the replies that tell the identifier check apart from the traffic after it
IdReplyKinds == {"ok", "refused"}

\* identifiers: every identifier of at most MaxIdLen characters, as session default and
\* as the argument of predict
NextIds ==
    \/ UseLegacyClient
    \/ UseNewClient
    \/ UseModel(Ids)
    \/ Predict(Ids \cup {None}, {NoType}, {<<"img1">>}, IdReplyKinds)
    \/ Return

SpecIds == Init /\ [][NextIds]_vars

\* the replies that differ for an inference request
PredictReplyKinds ==
    {"ok", "ok_viz", "ok_viz_null", "ok_jpeg", "ok_not_json", "err_json", "refused"}

\* inference: lists of up to MaxInputs images, every reply to each request, in both modes
NextPredict ==
    \/ Configure
    \/ UseLegacyClient
    \/ UseNewClient
    \/ UseModel({<<"a", "/", "a">>})
    \/ Predict({None, <<"a", "/", "a">>}, ModelType \cup {NoType}, InferenceInputs,
               PredictReplyKinds)
    \/ Return

SpecPredict == Init /\ [][NextPredict]_vars

\* the replies a stream step tells apart
StreamReplyKinds == {"ok", "refused"}

\* streams: one generator over a source of at most MaxFrames frames, created with and
\* without overrides, pulled while the session is reconfigured and its registry used
NextStream ==
    \/ Configure
    \/ UseLegacyClient
    \/ UseNewClient
    \/ UseModel({<<"a", "/", "a">>})
    \/ LoadModel({<<"a", "/", "a">>}, {"ok"})
    \/ UnloadModel({<<"a", "/", "a">>}, {"ok"})
    \/ UnloadAllModels({"ok"})
    \/ Predict({None}, {NoType}, {<<"img1">>}, {"ok"})
    \/ PredictOnStream(Sources, {NoType, CLASSIFICATION}, {None, <<"a", "/", "a">>})
    \/ Pull(StreamReplyKinds)
    \/ Return

SpecStream == Init /\ [][NextStream]_vars

\* the artefact cache, from an empty file system
NextCache ==
    \/ InitialiseCache(CacheIds)
    \/ SaveInCache(CacheIds)
    \/ ClearCache(CacheIds)
    \/ Return

SpecCache == Init /\ [][NextCache]_vars

---------------------------------------------------------------------------
(* Claims C1..C5 *)

\* the identifier a predict call is given: its argument, else the session default
GivenIdentifier == IF last.model_id # None THEN last.model_id ELSE selected_model

\* the number of "/" in an identifier
Slashes(id) == Cardinality({i \in 1..Len(id) : id[i] = "/"})

LegacyPredict == last.op = "predict" /\ client_mode = LEGACY_MODE

\* C1: a legacy-mode predict call whose identifier (given per call, else the session
\* default) does not contain exactly one "/" raises InvalidModelIdentifier and issues
\* no HTTP request.
C1_InvalidIdentifierRaisesWithoutRequest ==
    (LegacyPredict /\ GivenIdentifier # None /\ Slashes(GivenIdentifier) # 1)
        => (last.raised = "InvalidModelIdentifier" /\ last.requests = <<>>)

\* the identifier a legacy predict call splits: model_id or self.__selected_model
SplitIdentifier == OrId(last.model_id, selected_model)

\* C2: in legacy mode an identifier whose split on "/" yields an empty segment is
\* rejected with InvalidModelIdentifier before any request, and every legacy request
\* issued has a path "/<dataset>/<version>" built from two non-empty segments.
C2_LegacySegmentsNonEmpty ==
    LegacyPredict =>
        /\ (SplitIdentifier # None /\ <<>> \in {split(SplitIdentifier)[i] :
                                               i \in 1..Len(split(SplitIdentifier))})
              => (last.raised = "InvalidModelIdentifier" /\ last.requests = <<>>)
        /\ \A i \in 1..Len(last.requests) :
              LET segments == split(last.requests[i].path) IN
              /\ Len(segments) = 3
              /\ segments[1] = <<>>
              /\ segments[2] # <<>>
              /\ segments[3] # <<>>

\* C3: with no default identifier in the session, a predict call that omits the
\* identifier fails locally, in both modes, and sends no inference request.
C3_NoIdentifierFailsLocally ==
    (last.op = "predict" /\ last.model_id = None /\ selected_model = None)
        => (last.raised # "none" /\ last.requests = <<>>)

PublicOperations ==
    {"get_server_info", "list_loaded_models", "load_model", "unload_model",
     "unload_all_models", "predict"}

\* the last request of the call got no response: the transport failed
TransportFailed == Len(last.requests) > Len(last.responses)

\* the last response of the call has a status outside 200..299
NonSuccessResponse ==
    /\ last.responses # <<>>
    /\ Len(last.requests) = Len(last.responses)
    /\ LET status == last.responses[Len(last.responses)].status_code
       IN  status < 200 \/ status > 299

\* C4: a failure of an outbound call of a public operation reaches the caller as
\* HTTPClientError when the transport failed and as HTTPCallErrorError when the
\* response was not 2xx; it is never swallowed and nothing else escapes.
C4_FailuresAreTranslated ==
    last.op \in PublicOperations =>
        /\ TransportFailed => last.raised = "HTTPClientError"
        /\ NonSuccessResponse => last.raised = "HTTPCallErrorError"

\* C5: for a non-2xx response the caller gets HTTPCallErrorError with the response's
\* status code and with the JSON body's message when the content type is JSON, the raw
\* body text when it is not, a missing content-type header included.
C5_RemoteCallFailureMessage ==
    (last.op \in PublicOperations /\ NonSuccessResponse) =>
        LET response == last.responses[Len(last.responses)] IN
        /\ last.raised = "HTTPCallErrorError"
        /\ last.status_code = response.status_code
        /\ last.api_message = IF ContentTypeIsJson(response.content_type)
                              THEN JsonMessage(response)
                              ELSE Text(response)

---------------------------------------------------------------------------
(* Claims C6..C10 *)

SuccessfulPredict == last.op = "predict" /\ last.raised = "none"

\* the i-th item of the returned value is the normalized response to the i-th input:
\* request i carried input i, response i answers it, and the item is that response's
\* document (the decoded image for a JPEG response)
ItemAnswersInput(i) ==
    LET encoded == Encode(last.inference_input[i])
        response == last.responses[i]
        item == last.value.items[i]
    IN  /\ last.requests[i].image = encoded
        /\ response.body.about = encoded
        /\ item.about = encoded
        /\ item.entries = IF response.content_type = "image/jpeg" THEN "visualization"
                          ELSE response.body.shape

\* C6: a successful predict call, in either mode, returns the bare normalized document
\* for exactly one input, and for N >= 2 inputs a sequence of N documents, the i-th
\* being the normalized response to the i-th input.
C6_ResultShapeFollowsInputs ==
    SuccessfulPredict =>
        LET n == Len(last.inference_input) IN
        /\ n = 1 => /\ last.value.shape = "bare"
                    /\ Len(last.value.items) = 1
                    /\ ItemAnswersInput(1)
        /\ n >= 2 => /\ last.value.shape = "list"
                     /\ Len(last.value.items) = n
                     /\ \A i \in 1..n : ItemAnswersInput(i)

\* a successful legacy call on two different images, returned as a list in their order
C6_Witness ==
    /\ SuccessfulPredict
    /\ client_mode = LEGACY_MODE
    /\ last.inference_input = <<"img2", "img1">>
    /\ last.value.shape = "list"
    /\ last.value.items[1].about = Encode("img2")

\* the path infer_from_legacy_api builds from a well-formed identifier
LegacyPath(id) == <<"/">> \o split(id)[1] \o <<"/">> \o split(id)[2]

\* C7: right after a successful load_model(id, category, set_as_default=True), a predict
\* call that omits identifier and category uses id and category: in new mode the
\* request goes to the category's endpoint with model_id = id, in legacy mode its path
\* is built from id.
C7_PredictAfterLoadUsesLoaded ==
    (last.op = "predict" /\ preceding.loaded
        /\ last.model_id = None /\ last.model_type = NoType) =>
        /\ client_mode = NEW_MODE =>
              /\ Len(last.requests) = Len(last.inference_input)
              /\ \A i \in 1..Len(last.requests) :
                    /\ last.requests[i].path = NEW_INFERENCE_ENDPOINTS[preceding.model_type]
                    /\ last.requests[i].model_id = preceding.model_id
        /\ client_mode = LEGACY_MODE =>
              /\ Slashes(preceding.model_id) = 1
                    => Len(last.requests) = Len(last.inference_input)
              /\ \A i \in 1..Len(last.requests) :
                    last.requests[i].path = LegacyPath(preceding.model_id)

\* a new-mode predict right after load_model("a/a", classification, True)
C7_Witness ==
    /\ last.op = "predict"
    /\ preceding.loaded
    /\ preceding.model_type = CLASSIFICATION
    /\ preceding.model_id = <<"a", "/", "a">>
    /\ client_mode = NEW_MODE
    /\ last.model_id = None
    /\ last.model_type = NoType
    /\ Len(last.requests) = 1

\* C8: a load_model or unload_model call that fails (transport failure, non-2xx status
\* or a response body that cannot be parsed) leaves protocol mode, default identifier,
\* default category and call-parameter configuration as they were.
C8_FailedRegistryCallKeepsSession ==
    [][(last'.op \in {"load_model", "unload_model"} /\ last'.raised # "none")
          => session' = session]_vars

\* C9, as claimed: after unload_all_models the session has neither a default identifier
\* nor a default category, whatever it held before.
C9_UnloadAllLeavesNoCategory ==
    last.op = "unload_all_models" => (selected_model = None /\ model_type = NoType)

\* C9, amended: after a successful unload_all_models the session has no default
\* identifier and its default category is OBJECT_DETECTION, the value the constructor
\* sets, whatever it held before.
C9_UnloadAllResetsDefaults ==
    (last.op = "unload_all_models" /\ last.raised = "none")
        => (selected_model = None /\ model_type = Construct(client_mode).model_type)

\* unload_all_models succeeded right after load_model(id, classification, True) had
\* made the defaults something else
C9_Witness ==
    /\ last.op = "unload_all_models"
    /\ last.raised = "none"
    /\ preceding.loaded
    /\ preceding.model_type = CLASSIFICATION
    /\ preceding.model_id # None
    /\ selected_model = None

DefaultsUnchanged == selected_model' = selected_model /\ model_type' = model_type

\* C10: among successful registry calls, load_model changes the defaults only when
\* set_as_default is true, and then to the loaded id and category; unload_model leaves
\* identifier and category unchanged unless the unloaded id is the current default
\* identifier; get_server_info and list_loaded_models never change them.
C10_DefaultsChangeOnlyAsStated ==
    [][(last'.raised = "none") =>
          /\ last'.op = "load_model" =>
                IF last'.set_as_default
                THEN selected_model' = last'.model_id /\ model_type' = last'.model_type
                ELSE DefaultsUnchanged
          /\ (last'.op = "unload_model" /\ last'.model_id # selected_model)
                => DefaultsUnchanged
          /\ last'.op \in {"get_server_info", "list_loaded_models"}
                => DefaultsUnchanged]_vars

\* a successful unload_model of an identifier other than the default, the default "a/a"
\* with category classification still in place
C10_Witness ==
    /\ last.op = "unload_model"
    /\ last.raised = "none"
    /\ last.model_id = <<"a">>
    /\ selected_model = <<"a", "/", "a">>
    /\ model_type = CLASSIFICATION

---------------------------------------------------------------------------
(* Claims C11..C20 *)

\* the category a predict call resolves: its argument, else the session default
ResolvedCategory == IF last.model_type # NoType THEN last.model_type ELSE model_type

NewPredict == last.op = "predict" /\ client_mode = NEW_MODE

\* C11: in new mode the path of every request of a predict call is the table entry of
\* the resolved category (the call's override if given, else the session default),
\* whatever the identifier, the call parameters and the input, and the three categories
\* have three different paths.
C11_EndpointFollowsResolvedCategory ==
    /\ NewPredict =>
          \A i \in 1..Len(last.requests) :
             last.requests[i].path = NEW_INFERENCE_ENDPOINTS[ResolvedCategory]
    /\ \A c1, c2 \in ModelType :
          c1 # c2 => NEW_INFERENCE_ENDPOINTS[c1] # NEW_INFERENCE_ENDPOINTS[c2]

\* a new-mode call that overrides the session's object-detection with classification,
\* names a model and sends two images to the classification endpoint
C11_Witness ==
    /\ NewPredict
    /\ model_type = OBJECT_DETECTION
    /\ last.model_type = CLASSIFICATION
    /\ last.model_id = <<"a", "/", "a">>
    /\ Len(last.requests) = 2
    /\ last.requests[2].path = <<"/", "infer", "/", "classification">>

\* the paths of the new protocol
InferPaths == {NEW_INFERENCE_ENDPOINTS[t] : t \in ModelType}

\* a request of the legacy protocol: "/<dataset>/<version>" from the identifier in use,
\* the identifier nowhere else
IsLegacyRequest(request) ==
    /\ request.model_id = Absent
    /\ request.path \notin InferPaths
    /\ SplitIdentifier # None
    /\ request.path = LegacyPath(SplitIdentifier)

\* a request of the new protocol: an "/infer/<category>" path
IsNewRequest(request) == request.path \in InferPaths

\* C13: the client mode is the one most recently set (by the constructor,
\* use_legacy_client or use_new_client: nothing else changes it), and every request of a
\* predict call is a legacy request when that mode is legacy and a new-protocol request
\* when it is new, so one call never mixes the two.
C13_ProtocolIsModeLastSet ==
    /\ [](last.op = "predict" =>
            \A i \in 1..Len(last.requests) :
               IF client_mode = LEGACY_MODE THEN IsLegacyRequest(last.requests[i])
               ELSE IsNewRequest(last.requests[i]))
    /\ [][/\ last'.op = "use_legacy_client" => client_mode' = LEGACY_MODE
          /\ last'.op = "use_new_client" => client_mode' = NEW_MODE
          /\ last'.op \notin {"use_legacy_client", "use_new_client"}
                => client_mode' = client_mode]_vars

\* a legacy call of two requests, both to "/a/a", by a client whose default category
\* would have sent a new-mode call to the classification endpoint
C13_Witness ==
    /\ last.op = "predict"
    /\ client_mode = LEGACY_MODE
    /\ model_type = CLASSIFICATION
    /\ Len(last.requests) = 2
    /\ \A i \in 1..2 : last.requests[i].path = <<"/", "a", "/", "a">>

\* n round trips one after another: request i, its response, the normalized result i,
\* and only then request i + 1
SequentialRoundTrips(n) ==
    [k \in 1..(3 * n) |->
        <<CASE k % 3 = 1 -> "request" [] k % 3 = 2 -> "response" [] OTHER -> "result",
          ((k - 1) \div 3) + 1>>]

\* C14: a successful predict call over N inputs issues exactly N requests, request i
\* carrying the i-th input and nothing else, and request i + 1 is issued only after
\* response i has been received and normalized: no request is batched, duplicated or
\* retried.
C14_OneRequestPerInputInOrder ==
    SuccessfulPredict =>
        LET n == Len(last.inference_input) IN
        /\ Len(last.requests) = n
        /\ Len(last.responses) = n
        /\ \A i \in 1..n : last.requests[i].image = Encode(last.inference_input[i])
        /\ last.events = SequentialRoundTrips(n)

\* a successful new-mode call on two different images: two requests, the second one for
\* the second image and issued fifth in the call
C14_Witness ==
    /\ SuccessfulPredict
    /\ client_mode = NEW_MODE
    /\ last.inference_input = <<"img2", "img1">>
    /\ Len(last.requests) = 2
    /\ last.requests[2].image = Encode("img1")
    /\ last.events[4] = <<"request", 2>>

SuccessfulNewPredict == NewPredict /\ last.raised = "none"

\* the parsed JSON of response i, with its visualization entry decoded
Decoded(i) ==
    [Document(last.responses[i]) EXCEPT !.visualization =
        transform_base64_visualisation(@, inference_configuration)]

\* C15 as stated: in new mode a response document with a "visualization" entry,
\* whatever its value, null included, is returned with that entry replaced by the
\* decoded form of its content and every other entry unchanged, and a document without
\* the entry is returned unchanged.
C15_AnyVisualizationEntryIsDecoded ==
    SuccessfulNewPredict =>
        \A i \in 1..Len(last.responses) :
           last.value.items[i] =
              IF Document(last.responses[i]).visualization # Absent
              THEN Decoded(i)
              ELSE Document(last.responses[i])

\* C15, amended: in new mode a response document whose "visualization" entry is not
\* null is returned with that entry replaced by the decoded form of its content and
\* every other entry unchanged; a document without the entry, or with a null one, is
\* returned unchanged.
C15_NonNullVisualizationIsDecoded ==
    SuccessfulNewPredict =>
        \A i \in 1..Len(last.responses) :
           last.value.items[i] =
              IF Document(last.responses[i]).visualization \notin {Absent, None}
              THEN Decoded(i)
              ELSE Document(last.responses[i])

\* one new-mode call whose first response carries a base64 visualization, returned
\* decoded, and whose second carries a null one, returned as it came
C15_Witness ==
    /\ SuccessfulNewPredict
    /\ Len(last.responses) = 2
    /\ Document(last.responses[1]).visualization = <<"base64", "jpeg">>
    /\ last.value.items[1].visualization =
          <<"decoded", inference_configuration, "base64", "jpeg">>
    /\ Document(last.responses[2]).visualization = None
    /\ last.value.items[2].visualization = None

\* C16: in a new-mode predict call every request carries the identifier the caller
\* supplied, whatever it is, the empty string included, and the session default only
\* when the caller supplied none; its path is that of the category supplied, else of
\* the session's; and the call leaves the session defaults as they were.
C16_SuppliedOverridesAreUsed ==
    /\ [](NewPredict =>
            \A i \in 1..Len(last.requests) :
               /\ last.requests[i].model_id = GivenIdentifier
               /\ last.requests[i].path = NEW_INFERENCE_ENDPOINTS[ResolvedCategory])
    /\ [][last'.op = "predict" => DefaultsUnchanged]_vars

\* request i of the call failed: it got no response, or one with a status outside
\* 200..299
RequestFailed(i) ==
    \/ i > Len(last.responses)
    \/ last.responses[i].status_code < 200
    \/ last.responses[i].status_code > 299

TranslatedErrors == {"HTTPCallErrorError", "HTTPClientError"}

\* C18: when the request for input i of a predict call fails, the call raises the
\* translated error at once: request i is the last one issued, nothing is returned of
\* the results obtained before it, and what is raised is HTTPCallErrorError or
\* HTTPClientError.
C18_FailFastWithTranslatedError ==
    last.op = "predict" =>
        \A i \in 1..Len(last.requests) :
           RequestFailed(i) =>
              /\ i = Len(last.requests)
              /\ last.value = NoValue
              /\ last.raised \in TranslatedErrors

\* the consumer has just received a pair from the stream
PairYielded == last.op = "next" /\ last.raised = "none"

\* C12: a stream over K frames hands over its pairs in source order, the i-th pair
\* holding the i-th frame and the result of one single-input inference on it, and a
\* stream read to the end of its source has handed over exactly K pairs. It is lazy:
\* creating it takes no frame and sends no request, every frame taken from the source
\* was asked for by a pull, and a pull sends at most one inference request.
C12_StreamYieldsInOrderLazily ==
    /\ stream.yielded <= stream.cursor
    /\ stream.cursor <= stream.pulls
    /\ stream.cursor <= Len(stream.source)
    /\ stream.state = "created" => stream.cursor = 0 /\ stream.pulls = 0
    /\ stream.state = "exhausted" => stream.yielded = Len(stream.source)
    /\ last.op = "predict_on_stream" => last.requests = <<>> /\ stream.cursor = 0
    /\ last.op = "next" => Len(last.requests) <= 1
    /\ PairYielded =>
          LET frame == stream.source[stream.yielded] IN
          /\ last.inference_input = <<frame>>
          /\ Len(last.requests) = 1
          /\ last.requests[1].image = Encode(frame)
          /\ last.value.shape = "bare"
          /\ last.value.items[1].about = Encode(frame)

\* a stream over two frames read to its end: the third pull found the source empty
\* after two pairs
C12_Witness ==
    /\ stream.state = "exhausted"
    /\ stream.source = <<"img2", "img1">>
    /\ stream.yielded = 2
    /\ stream.pulls = 3
    /\ last.op = "next"
    /\ last.raised = "StopIteration"

\* the requests the step would have sent from the client as it was when the stream was
\* created
RequestsOfCreationSession ==
    wrap_errors(predict(stream.created_with, last.inference_input, stream.model_type,
                        stream.model_id, [i \in 1..1 |-> "ok"])).requests

\* C17: every frame a stream takes is inferred with the protocol mode, the default
\* model and category and the call-parameter configuration the session had when the
\* stream was created, whatever was changed in the session between two pulls.
C17_StreamKeepsCreationSession ==
    (last.op = "next" /\ last.inference_input # <<>>) =>
        last.requests = RequestsOfCreationSession

\* the operations that may change the session
SessionOperations ==
    {"configure", "use_legacy_client", "use_new_client", "use_model", "load_model",
     "unload_model", "unload_all_models"}

\* C19: predict and each pull of a stream, whatever their arguments and outcome, leave
\* protocol mode, default identifier, default category and configuration as they were;
\* a step that changes any of them is one of configure, use_legacy_client,
\* use_new_client, use_model, load_model, unload_model and unload_all_models.
C19_InferenceLeavesSessionUnchanged ==
    [][/\ last'.op \in {"predict", "next"} => session' = session
       /\ session' # session => last'.op \in SessionOperations]_vars

\* a pair from a stream created with the overrides "a/a" and classification, on a
\* session that still has no default identifier and the category object-detection
C19_Witness ==
    /\ PairYielded
    /\ stream.model_id = <<"a", "/", "a">>
    /\ stream.model_type = CLASSIFICATION
    /\ selected_model = None
    /\ model_type = OBJECT_DETECTION

\* C20: clear_cache(model_id=m) removes only what is cached under m: for every other
\* model identifier m', those that share a leading segment with m included, and every
\* file f, is_file_cached(f, m') is after the call what it was before it.
C20_ClearCacheLeavesOtherModels ==
    [][(last'.op = "clear_cache" /\ last'.model_id # None) =>
          \A other \in CacheIds \ {None, last'.model_id}, file \in Files :
             is_file_cached(cache_files', file, other)
                = is_file_cached(cache_files, file, other)]_vars

====
